---------------------------- MODULE Spec2Model ----------------------------
(***************************************************************************)
(* Model of the chat application's request handlers (src/chat/views.py)   *)
(* and stores (src/chat/models.py): the per-session active-document       *)
(* cache, the durable Document table, and the Chat / ChatMessage tables.   *)
(*                                                                         *)
(* Text is a sequence of one-character strings, so that strip(), slicing   *)
(* and len() are computed as Python computes them.                         *)
(***************************************************************************)
EXTENDS Integers, Sequences, FiniteSets, TLC

(* ----------------------------- bounds --------------------------------- *)
MaxDocs    == 3    \* Document rows ever created
MaxChats   == 2    \* Chat rows ever created, where numbering is studied
MaxTurns   == 2    \* ChatMessage rows / turn-list entries per chat
FlowDocs   == 1    \* Document rows ever created, where all handlers run
FlowChats  == 1    \* Chat rows ever created, where all handlers run
RejectDocs == 2    \* Document rows ever created, where rejections are studied
TripTurns  == 4    \* ChatMessage rows per chat, where the round trip is studied
SaveChats  == 2    \* Chat rows ever created, where save_chat is studied
PromptDocs == 2    \* Document rows ever created, where the gateway input is studied
LongDocs   == 2    \* Document rows ever created, where long texts are studied
OwnerDocs  == 1    \* Document rows ever created, where two owners are studied
OwnerChats == 2    \* Chat rows ever created, where two owners are studied
KeyDocs    == 2    \* Document rows ever created, where the cache keys are studied
SessionDocs == 3   \* Document rows ever created, where two sessions of an owner are studied
StoreTurns == 4    \* turn records of a conversation, where the store is varied
Requests   == 2    \* requests that run step by step, interleaved with each other

(* ------------------------- program constants -------------------------- *)
max_size        == 10485760   \* upload_document: 10 * 1024 * 1024
max_text_length == 50000      \* upload_document: cache truncation limit
KeepDocuments   == 2          \* upload_document: active_documents[-2:]
TitleLength     == 50         \* chat / ask_document: user_message[:50]
ContextLength   == 15000      \* chat: characters of a document put into the context

(* ----------------------------- inputs --------------------------------- *)
Users       == {"A", "B"}
Sessions    == {"s1", "s2"}              \* one authenticated session per owner
SecondSession == "s3"                    \* a second session of owner A
AllSessions == Sessions \cup {SecondSession}
SessionUser == [s \in AllSessions |-> IF s = "s2" THEN "B" ELSE "A"]
NoChatId    == ""                        \* absent / None / '' : all falsy
ChatIds     == {"c1", "default"}         \* ids a client may send
\* request.FILES['file']: absent, over the size limit, or a small text file
NoFile      == [present |-> FALSE, size |-> 0, name |-> "", content |-> <<>>]
BigFile     == [present |-> TRUE, size |-> max_size + 1, name |-> "f.txt",
                content |-> <<>>]
Replies     == {<<"r">>}                 \* texts the gateway may generate
Gateways    == {"no_key", "error", "ok"} \* no API key; the call raises; it returns
Titles      == {<<"New Chat">>, <<"t">>} \* titles save_chat may be given
Positions   == {"", " First", "2", "third"} \* position tokens of summarize
MessageLists ==                          \* message lists save_chat may be given
    {<<>>, <<[role |-> "user", content |-> <<"b">>]>>}
TruncationMarker == <<"\n\n[Document truncated for length...]">>

RawTexts    == {<<>>, <<" ">>, <<" ", "a">>}          \* contents of uploaded files
SmallFiles  == {[present |-> TRUE, size |-> 1, name |-> "f.txt", content |-> raw] :
                  raw \in RawTexts}
Files       == SmallFiles \cup {NoFile, BigFile}
RawMessages == {<<>>, <<" ">>, <<" ", "a">>}          \* message / question bodies

(* --------------------------- text helpers ----------------------------- *)
Whitespace == {" "}

RECURSIVE LStrip(_)
LStrip(t) == IF t # <<>> /\ Head(t) \in Whitespace THEN LStrip(Tail(t)) ELSE t

RECURSIVE RStrip(_)
RStrip(t) == IF t # <<>> /\ t[Len(t)] \in Whitespace
             THEN RStrip(SubSeq(t, 1, Len(t) - 1)) ELSE t

\* str.strip()
Strip(t) == RStrip(LStrip(t))

\* t[:n]
Prefix(t, n) == SubSeq(t, 1, IF Len(t) < n THEN Len(t) ELSE n)

\* t[-n:]
LastN(t, n) == IF Len(t) > n THEN SubSeq(t, Len(t) - n + 1, Len(t)) ELSE t

\* [d for d in t if d.get('id') != id]
RECURSIVE WithoutId(_, _)
WithoutId(t, id) ==
    IF t = <<>> THEN <<>>
    ELSE IF Head(t).id # id THEN <<Head(t)>> \o WithoutId(Tail(t), id)
         ELSE WithoutId(Tail(t), id)

(* --------------------------- dict helpers ----------------------------- *)
EmptyDict     == [k \in {} |-> <<>>]
DictGet(d, k) == IF k \in DOMAIN d THEN d[k] ELSE <<>>      \* d.get(k, [])
DictPut(d, k, v) == [x \in DOMAIN d \cup {k} |-> IF x = k THEN v ELSE d[x]]
DictDel(d, k) == [x \in DOMAIN d \ {k} |-> d[x]]

(* ------------------------------ state --------------------------------- *)
VARIABLES
    documents,         \* Document table: set of rows
    next_document_id,  \* Document.id auto-increment
    session,           \* session[s] = request.session['chat_documents'] of s
    chats,             \* Chat table with each row's ChatMessage rows
    uuid_count,        \* uuid4 values generated so far
    request,           \* the request handled by the last step
    response,          \* the JsonResponse of the last step
    gateway_calls,     \* completions.create calls made by the last step
    created,           \* Chat rows created so far
    new_session_id,    \* session_id of the Chat row the last step created, else 0
    assigned,          \* largest session_id given to a created chat so far
    uploaded,          \* per session and conversation id: the current run of cached uploads
    purged,            \* per session: ids that delete_document removed through it
    gateway_messages,  \* the messages list chat handed to the gateway in the last step
    chat_turns,        \* per (owner, chat_id) built by chat turns only: what was
                       \* sent and generated, in order
    workers            \* per request that runs step by step: its position and
                       \* the values it holds between its steps

vars == <<documents, next_document_id, session, chats, uuid_count,
          request, response, gateway_calls, created,
          new_session_id, assigned, uploaded, purged,
          gateway_messages, chat_turns, workers>>

(* ------------------------ requests, responses ------------------------- *)
NoRequest ==
    [op |-> "none", session |-> "", chat_id |-> NoChatId, document_id |-> 0,
     text |-> <<>>, position |-> <<>>, title |-> <<>>, messages |-> <<>>,
     file |-> NoFile, history |-> <<>>,
     gateway |-> "", reply |-> <<>>]

NoResponse ==
    [status |-> 0, chat_id |-> NoChatId, document_id |-> 0, length |-> 0,
     messages |-> <<>>, error |-> <<>>, listing |-> {}]

JsonResponse(status) == [NoResponse EXCEPT !.status = status]

(* ----------------------------- exceptions ----------------------------- *)
\* `except cls` catches exc when exc is cls or a subclass of it; Http404,
\* Chat.DoesNotExist and the gateway's errors all derive from Exception and
\* from nothing else that the handlers name.
Catches(cls, exc) == cls = exc \/ cls = "Exception"

\* The status a view answers with when its body raises exc: the first matching
\* except clause, else Django's own answer (404 for Http404, 500 otherwise).
RECURSIVE StatusOfException(_, _)
StatusOfException(clauses, exc) ==
    IF clauses = <<>> THEN (IF exc = "Http404" THEN 404 ELSE 500)
    ELSE IF Catches(Head(clauses).cls, exc) THEN Head(clauses).status
         ELSE StatusOfException(Tail(clauses), exc)

OnJsonError   == [cls |-> "JSONDecodeError", status |-> 400]
OnDoesNotExist == [cls |-> "Chat.DoesNotExist", status |-> 404]
OnException   == [cls |-> "Exception", status |-> 500]

(* --------------------------- Document store --------------------------- *)
\* extract_text_from_file: the extractor's text, dropped when it is an error
\* message, then stripped
ExtractText(raw) ==
    IF raw # <<>> /\ Head(raw) \in {"Error", "Unable to"} THEN <<>>
    ELSE IF raw # <<>> THEN Strip(raw) ELSE <<>>

\* Document.objects.filter(id=document_id, user=user)
FindDocument(document_id, user) ==
    {d \in documents : d.id = document_id /\ d.user = user}

\* mutant of TruncateForCache: a text of exactly max_text_length is cut too
TruncateForCacheAtLimit(text) ==
    IF Len(text) >= max_text_length
    THEN Prefix(text, max_text_length) \o TruncationMarker
    ELSE text

\* extracted_text[:max_text_length] + marker when longer than max_text_length
TruncateForCache(text) ==
    IF Len(text) > max_text_length
    THEN Prefix(text, max_text_length) \o TruncationMarker
    ELSE text

\* mutants of KeepMostRecent: no cap; the oldest two instead of the newest
KeepEvery(active_documents) == active_documents

KeepOldest(active_documents) == Prefix(active_documents, KeepDocuments)

\* active_documents[-2:] when more than 2
KeepMostRecent(active_documents) ==
    IF Len(active_documents) > KeepDocuments
    THEN LastN(active_documents, KeepDocuments)
    ELSE active_documents

\* the list upload_document stores for the key: drop the same id, append, cap
Upsert(active_documents, entry) ==
    KeepMostRecent(Append(WithoutId(active_documents, entry.id), entry))

\* the list upload_document starts from
ActiveForUpload(chat_documents, chat_id) ==
    IF chat_id # NoChatId THEN DictGet(chat_documents, chat_id) ELSE <<>>

\* the key upload_document stores under
StorageKey(chat_id) == IF chat_id # NoChatId THEN chat_id ELSE "default"

\* mutant of Purge: only the fallback key is purged
PurgeDefaultOnly(chat_documents, document_id) ==
    [k \in {x \in DOMAIN chat_documents :
               x # "default" \/ WithoutId(chat_documents[x], document_id) # <<>>} |->
        IF k = "default" THEN WithoutId(chat_documents[k], document_id)
        ELSE chat_documents[k]]

\* delete_document's loop over every key of chat_documents
Purge(chat_documents, document_id) ==
    LET kept == {k \in DOMAIN chat_documents :
                    WithoutId(chat_documents[k], document_id) # <<>>}
    IN  [k \in kept |-> WithoutId(chat_documents[k], document_id)]

NoUploads == [c \in ChatIds |-> <<>>]

\* mutant of HasCacheableText: every extracted text is cached
HasCacheableTextAlways(extracted_text) == TRUE

\* upload_document: `if extracted_text and extracted_text.strip()`
HasCacheableText(extracted_text) ==
    extracted_text # <<>> /\ Strip(extracted_text) # <<>>

UploadDocument(s, chat_id, file) ==
    /\ request' = [NoRequest EXCEPT !.op = "upload_document", !.session = s,
                     !.chat_id = chat_id, !.file = file]
    /\ UNCHANGED workers
    /\ gateway_calls' = 0
    /\ new_session_id' = 0
    /\ UNCHANGED <<chats, uuid_count, created, assigned, purged, chat_turns>>
    /\ gateway_messages' = <<>>
    /\ IF ~file.present \/ file.size > max_size
       THEN /\ response' = JsonResponse(400)
            /\ UNCHANGED <<documents, next_document_id, session, uploaded>>
       ELSE LET extracted_text == ExtractText(file.content)
                document == [id |-> next_document_id, user |-> SessionUser[s],
                             filename |-> file.name,
                             extracted_text |-> extracted_text]
                cached == HasCacheableText(extracted_text)
                text == TruncateForCache(extracted_text)
                entry == [id |-> document.id, filename |-> document.filename,
                          text |-> text]
                active_documents ==
                    Upsert(ActiveForUpload(session[s], chat_id), entry)
            IN  /\ documents' = documents \cup {document}
                /\ next_document_id' = next_document_id + 1
                /\ session' =
                      IF cached
                      THEN [session EXCEPT ![s] =
                              DictPut(@, StorageKey(chat_id), active_documents)]
                      ELSE session
                /\ uploaded' =
                      IF ~cached THEN uploaded
                      ELSE IF chat_id = NoChatId
                           THEN [uploaded EXCEPT ![s] = NoUploads]
                           ELSE [uploaded EXCEPT ![s][chat_id] = Append(@, document.id)]
                /\ response' = [JsonResponse(200) EXCEPT
                                  !.document_id = document.id,
                                  !.length = IF cached THEN Len(text) ELSE 0]

ClearChatDocuments(s, chat_id) ==
    /\ request' = [NoRequest EXCEPT !.op = "clear_chat_documents",
                     !.session = s, !.chat_id = chat_id]
    /\ UNCHANGED workers
    /\ gateway_calls' = 0
    /\ new_session_id' = 0
    /\ UNCHANGED <<documents, next_document_id, chats, uuid_count, created, assigned,
                   purged, chat_turns>>
    /\ gateway_messages' = <<>>
    /\ IF chat_id = NoChatId
       THEN /\ response' = JsonResponse(400)
            /\ UNCHANGED <<session, uploaded>>
       ELSE /\ session' = [session EXCEPT ![s] = DictDel(@, chat_id)]
            /\ uploaded' = [uploaded EXCEPT ![s] = NoUploads]
            /\ response' = JsonResponse(200)

DeleteDocument(s, document_id) ==
    /\ request' = [NoRequest EXCEPT !.op = "delete_document", !.session = s,
                     !.document_id = document_id]
    /\ UNCHANGED workers
    /\ gateway_calls' = 0
    /\ new_session_id' = 0
    /\ UNCHANGED <<next_document_id, chats, uuid_count, created, assigned, chat_turns>>
    /\ gateway_messages' = <<>>
    /\ IF FindDocument(document_id, SessionUser[s]) = {}
       THEN \* get_object_or_404 raises Http404 inside the try block
            /\ response' = JsonResponse(StatusOfException(<<OnException>>, "Http404"))
            /\ UNCHANGED <<documents, session, uploaded, purged>>
       ELSE /\ session' = [session EXCEPT ![s] = Purge(@, document_id)]
            /\ purged' = [purged EXCEPT ![s] = @ \cup {document_id}]
            /\ documents' = documents \ FindDocument(document_id, SessionUser[s])
            /\ uploaded' = [uploaded EXCEPT ![s] = NoUploads]
            /\ response' = JsonResponse(200)

\* get_documents: id, filename and has_text of every document of the
\* requesting user
GetDocuments(s) ==
    /\ request' = [NoRequest EXCEPT !.op = "get_documents", !.session = s]
    /\ UNCHANGED workers
    /\ gateway_calls' = 0
    /\ new_session_id' = 0
    /\ UNCHANGED <<documents, next_document_id, session, chats, uuid_count,
                   created, assigned, uploaded, purged, chat_turns>>
    /\ gateway_messages' = <<>>
    /\ response' = [JsonResponse(200) EXCEPT
                      !.listing = {[id |-> d.id, filename |-> d.filename,
                                    has_text |-> d.extracted_text # <<>>] :
                                     d \in {x \in documents : x.user = SessionUser[s]}}]

(* ----------------------------- Chat store ----------------------------- *)
NewChatTitle == <<"New Chat">>

\* str(uuid.uuid4()): a value no earlier call returned and no client made up
Uuid(n) == "u" \o ToString(n)

\* mutant of FindChat: the owner is not part of the lookup
FindChatAnyOwner(chat_id, user) ==
    {c \in chats : c.chat_id = chat_id}

\* Chat.objects.filter(chat_id=chat_id, user=user)
FindChat(chat_id, user) ==
    {c \in chats : c.chat_id = chat_id /\ c.user = user}

Max(S) == CHOOSE x \in S : \A y \in S : y <= x

\* Chat.get_next_session_id over the stored rows
NextSessionId(rows) ==
    IF rows # {} /\ Max({c.session_id : c \in rows}) # 0
    THEN Max({c.session_id : c \in rows}) + 1
    ELSE 1

\* mutant of NewChat: the next number is taken among the owner's rows only
NewChatPerOwner(chat_id, user, title) ==
    [chat_id |-> chat_id, user |-> user,
     session_id |-> NextSessionId({c \in chats : c.user = user}),
     title |-> title, conversation_history |-> <<>>, messages |-> <<>>]

\* Chat.objects.create(chat_id=, session_id=, user=, title=)
NewChat(chat_id, user, title) ==
    [chat_id |-> chat_id, user |-> user, session_id |-> NextSessionId(chats),
     title |-> title, conversation_history |-> <<>>, messages |-> <<>>]

\* mutant of CreateMessage: the new row sorts before the earlier ones
CreateMessageFirst(chat, role, content) ==
    [chat EXCEPT !.messages = <<[role |-> role, content |-> content]>> \o @]

\* ChatMessage.objects.create(chat=chat, role=role, content=content); the rows
\* of a chat are read back in created_at order
CreateMessage(chat, role, content) ==
    [chat EXCEPT !.messages = Append(@, [role |-> role, content |-> content])]

\* Chat.add_to_history
AddToHistory(chat, role, content) ==
    [chat EXCEPT !.conversation_history =
        Append(IF @ = <<>> THEN <<>> ELSE @, [role |-> role, content |-> content])]

\* the four writes that follow a successful model call
RecordExchange(chat, user_content, assistant_content) ==
    AddToHistory(
      AddToHistory(
        CreateMessage(CreateMessage(chat, "user", user_content),
                      "assistant", assistant_content),
        "user", user_content),
      "assistant", assistant_content)

\* user_message[:50] if len(user_message) > 50 else user_message
TitleFrom(text) ==
    IF Len(text) > TitleLength THEN Prefix(text, TitleLength) ELSE text

\* chat: title of a conversation it creates
ChatTitle(user_message) ==
    IF TitleFrom(user_message) = <<>> THEN NewChatTitle ELSE TitleFrom(user_message)

\* chat: replace the placeholder title after the exchange
RetitleAfterChat(chat, user_message) ==
    IF chat.title = NewChatTitle /\ user_message # <<>>
    THEN [chat EXCEPT !.title = TitleFrom(user_message)]
    ELSE chat

\* mutant of UserMessage: the message is taken as sent
UserMessageRaw(message) == message

\* data.get('message', '').strip()
UserMessage(message) == Strip(message)

\* mutant of ChatOutcome: a failed completion is swallowed and recorded
ChatOutcomeIgnoringFailure(message, gateway) ==
    IF UserMessage(message) = <<>> THEN "empty_message"
    ELSE IF gateway = "no_key" THEN "no_client"
    ELSE "recorded"

\* chat: which return or raise ends the request
ChatOutcome(message, gateway) ==
    IF UserMessage(message) = <<>> THEN "empty_message"
    ELSE IF gateway = "no_key" THEN "no_client"
    ELSE IF gateway = "error" THEN "gateway_error"
    ELSE "recorded"

\* mutant of ActiveDocuments: without a conversation id the fallback key is read
ActiveDocumentsOrDefault(chat_documents, chat_id) ==
    IF chat_id # NoChatId THEN DictGet(chat_documents, chat_id)
    ELSE DictGet(chat_documents, "default")

\* the list summarize_document and chat read for a conversation id
ActiveDocuments(chat_documents, chat_id) ==
    IF chat_id # NoChatId THEN DictGet(chat_documents, chat_id) ELSE <<>>

(* the messages list chat builds for the gateway; a content is the sequence
   of the pieces its string is made of *)
GenericPrompt  == <<"You are a helpful AI assistant. Provide brief, ...">>
SinglePrompt   == <<"You are a helpful AI assistant with access to a document ...">>
MultiPrompt(doc_count) ==
    <<"You are a helpful AI assistant with access to ", ToString(doc_count),
      " documents ... The documents are numbered: Document 1 ..., Document 2 ...">>
ContinuationMarker == <<"\n\n[Document content continues but was truncated...]">>
ContextHeader  == <<"[Document context from uploaded files:\n">>
ContextTrailer ==
    <<"\n]\n\nNow answer the user's question based on the above document content:">>
ContextSeparator == <<"\n\n---\n\n">>

\* chat: system_content for the active documents
SystemContent(active_documents) ==
    IF active_documents = <<>> THEN GenericPrompt
    ELSE IF Len(active_documents) = 1 THEN SinglePrompt
    ELSE MultiPrompt(Len(active_documents))

\* mutant of DocText: the cached text is injected whole
DocTextWhole(text) == text

\* chat: doc_text[:15000] + marker when longer than 15000
DocText(text) ==
    IF Len(text) > ContextLength
    THEN Prefix(text, ContextLength) \o ContinuationMarker
    ELSE text

\* chat: f"Document {idx} ('{doc_filename}'):\n{doc_text}"
DocContext(idx, doc) ==
    <<"Document ", ToString(idx), " ('", doc.filename, "'):\n">> \o DocText(doc.text)

\* chat: "\n\n---\n\n".join(doc_contexts), documents numbered from idx on
RECURSIVE AllDocsText(_, _)
AllDocsText(active_documents, idx) ==
    IF active_documents = <<>> THEN <<>>
    ELSE IF Len(active_documents) = 1 THEN DocContext(idx, Head(active_documents))
    ELSE DocContext(idx, Head(active_documents)) \o ContextSeparator
            \o AllDocsText(Tail(active_documents), idx + 1)

\* chat: the history entries whose role is not 'system', as role/content pairs
RECURSIVE ReplayHistory(_)
ReplayHistory(conversation_history) ==
    IF conversation_history = <<>> THEN <<>>
    ELSE IF Head(conversation_history).role # "system"
         THEN <<[role |-> Head(conversation_history).role,
                 content |-> Head(conversation_history).content]>>
                 \o ReplayHistory(Tail(conversation_history))
         ELSE ReplayHistory(Tail(conversation_history))

\* mutant of BuildMessages: the document context follows the history
BuildMessagesContextLate(active_documents, conversation_history, user_message) ==
    <<[role |-> "system", content |-> SystemContent(active_documents)]>>
    \o ReplayHistory(conversation_history)
    \o (IF active_documents # <<>>
        THEN <<[role |-> "user",
                content |-> ContextHeader \o AllDocsText(active_documents, 1)
                               \o ContextTrailer]>>
        ELSE <<>>)
    \o <<[role |-> "user", content |-> user_message]>>

\* chat: the messages list handed to completions.create
BuildMessages(active_documents, conversation_history, user_message) ==
    <<[role |-> "system", content |-> SystemContent(active_documents)]>>
    \o (IF active_documents # <<>>
        THEN <<[role |-> "user",
                content |-> ContextHeader \o AllDocsText(active_documents, 1)
                               \o ContextTrailer]>>
        ELSE <<>>)
    \o ReplayHistory(conversation_history)
    \o <<[role |-> "user", content |-> user_message]>>

\* what chat_turns becomes when chat records an exchange in conversation key
TurnsAfterChat(turns, key, is_new, user_message, reply) ==
    LET exchange == <<[role |-> "user", content |-> user_message],
                      [role |-> "assistant", content |-> reply]>>
    IN  IF is_new THEN DictPut(turns, key, exchange)
        ELSE IF key \in DOMAIN turns THEN DictPut(turns, key, turns[key] \o exchange)
        ELSE turns

\* mutant of GatewayHistory: without a history in the request the stored turn
\* list is replayed, as Chat.get_conversation_history would give it
GatewayHistoryOrStored(conversation_history, stored) ==
    IF conversation_history = <<>> /\ stored # {}
    THEN (CHOOSE c \in stored : TRUE).conversation_history
    ELSE conversation_history

\* chat: conversation_history = data.get('history', []); the stored
\* conversation is not read before the gateway call
GatewayHistory(conversation_history, stored) == conversation_history

ChatWithHistory(s, chat_id, message, conversation_history, gateway, reply) ==
    LET user         == SessionUser[s]
        user_message == UserMessage(message)
        outcome      == ChatOutcome(message, gateway)
        active_documents == ActiveDocuments(session[s], chat_id)
        id           == IF chat_id = NoChatId THEN Uuid(uuid_count + 1) ELSE chat_id
        found        == FindChat(id, user)
        chat         == IF found # {} THEN CHOOSE c \in found : TRUE
                        ELSE NewChat(id, user, ChatTitle(user_message))
        saved        == RetitleAfterChat(
                            RecordExchange(chat, user_message, reply), user_message)
    IN  /\ request' = [NoRequest EXCEPT !.op = "chat", !.session = s,
                         !.chat_id = chat_id, !.text = message,
                         !.history = conversation_history,
                         !.gateway = IF outcome = "empty_message" THEN "" ELSE gateway,
                         !.reply = IF outcome = "recorded" THEN reply ELSE <<>>]
        /\ UNCHANGED workers
        /\ gateway_calls' = IF outcome \in {"gateway_error", "recorded"} THEN 1 ELSE 0
        /\ gateway_messages' =
              IF outcome \in {"gateway_error", "recorded"}
              THEN BuildMessages(active_documents,
                                 GatewayHistory(conversation_history, found),
                                 user_message)
              ELSE <<>>
        /\ UNCHANGED <<documents, next_document_id, session, uploaded, purged>>
        /\ IF outcome = "recorded"
           THEN /\ chats' = (chats \ found) \cup {saved}
                /\ chat_turns' = TurnsAfterChat(chat_turns, <<user, id>>, found = {},
                                                user_message, reply)
                /\ uuid_count' = IF chat_id = NoChatId THEN uuid_count + 1 ELSE uuid_count
                /\ created' = IF found = {} THEN created + 1 ELSE created
                /\ new_session_id' = IF found = {} THEN chat.session_id ELSE 0
                /\ assigned' = IF found = {} /\ chat.session_id > assigned
                               THEN chat.session_id ELSE assigned
                /\ response' = [JsonResponse(200) EXCEPT !.chat_id = id]
           ELSE /\ response' = JsonResponse(
                      IF outcome = "empty_message" THEN 400
                      ELSE IF outcome = "no_client" THEN 500
                      ELSE StatusOfException(<<OnJsonError, OnException>>, "APIError"))
                /\ new_session_id' = 0
                /\ UNCHANGED <<chats, uuid_count, created, assigned, chat_turns>>

\* a chat request that sends no history
Chat(s, chat_id, message, gateway, reply) ==
    ChatWithHistory(s, chat_id, message, <<>>, gateway, reply)

GetChat(s, chat_id) ==
    LET found == FindChat(chat_id, SessionUser[s])
    IN  /\ request' = [NoRequest EXCEPT !.op = "get_chat", !.session = s,
                         !.chat_id = chat_id]
        /\ UNCHANGED workers
        /\ gateway_calls' = 0
        /\ new_session_id' = 0
        /\ UNCHANGED <<documents, next_document_id, session, chats, uuid_count,
                       created, assigned, uploaded, purged, chat_turns>>
        /\ gateway_messages' = <<>>
        /\ IF found = {}
           THEN \* get_object_or_404 raises Http404 inside the try block
                response' = JsonResponse(
                    StatusOfException(<<OnDoesNotExist, OnException>>, "Http404"))
           ELSE response' = [JsonResponse(200) EXCEPT
                               !.chat_id = chat_id,
                               !.messages = (CHOOSE c \in found : TRUE).messages]

\* get_chats: id and title of every conversation of the requesting user
GetChats(s) ==
    /\ request' = [NoRequest EXCEPT !.op = "get_chats", !.session = s]
    /\ UNCHANGED workers
    /\ gateway_calls' = 0
    /\ new_session_id' = 0
    /\ UNCHANGED <<documents, next_document_id, session, chats, uuid_count,
                   created, assigned, uploaded, purged, chat_turns>>
    /\ gateway_messages' = <<>>
    /\ response' = [JsonResponse(200) EXCEPT
                      !.listing = {[id |-> c.chat_id, title |-> c.title] :
                                     c \in {x \in chats : x.user = SessionUser[s]}}]

\* mutant of DeleteMessages: the earlier rows are kept
KeepMessages(chat) == chat

\* save_chat: chat.messages.all().delete()
DeleteMessages(chat) == [chat EXCEPT !.messages = <<>>]

\* save_chat: one ChatMessage row per entry of messages_data, in order
RECURSIVE CreateMessages(_, _)
CreateMessages(chat, messages_data) ==
    IF messages_data = <<>> THEN chat
    ELSE CreateMessages(CreateMessage(chat, Head(messages_data).role,
                                      Head(messages_data).content),
                        Tail(messages_data))

SaveChat(s, chat_id, title, messages_data) ==
    LET user  == SessionUser[s]
        found == FindChat(chat_id, user)
        chat  == IF found # {}
                 THEN DeleteMessages([(CHOOSE c \in found : TRUE) EXCEPT
                                         !.title = title])
                 ELSE NewChat(chat_id, user, title)
        saved == CreateMessages(chat, messages_data)
    IN  /\ request' = [NoRequest EXCEPT !.op = "save_chat", !.session = s,
                         !.chat_id = chat_id, !.title = title,
                         !.messages = messages_data]
        /\ UNCHANGED workers
        /\ gateway_calls' = 0
        /\ gateway_messages' = <<>>
        /\ UNCHANGED <<documents, next_document_id, session, uuid_count,
                       uploaded, purged>>
        /\ IF chat_id = NoChatId
           THEN /\ response' = JsonResponse(400)
                /\ new_session_id' = 0
                /\ UNCHANGED <<chats, created, assigned, chat_turns>>
           ELSE /\ chats' = (chats \ found) \cup {saved}
                /\ chat_turns' = DictDel(chat_turns, <<user, chat_id>>)
                /\ created' = IF found = {} THEN created + 1 ELSE created
                /\ new_session_id' = IF found = {} THEN chat.session_id ELSE 0
                /\ assigned' = IF found = {} /\ chat.session_id > assigned
                               THEN chat.session_id ELSE assigned
                /\ response' = [JsonResponse(200) EXCEPT !.chat_id = chat_id]

DeleteChat(s, chat_id) ==
    LET found == FindChat(chat_id, SessionUser[s])
    IN  /\ request' = [NoRequest EXCEPT !.op = "delete_chat", !.session = s,
                         !.chat_id = chat_id]
        /\ UNCHANGED workers
        /\ gateway_calls' = 0
        /\ new_session_id' = 0
        /\ UNCHANGED <<documents, next_document_id, session, uuid_count,
                       created, assigned, uploaded, purged>>
        /\ gateway_messages' = <<>>
        /\ IF found = {}
           THEN /\ response' = JsonResponse(
                      StatusOfException(<<OnException>>, "Http404"))
                /\ UNCHANGED <<chats, chat_turns>>
           ELSE /\ chats' = chats \ found        \* ChatMessage rows cascade
                /\ chat_turns' = DictDel(chat_turns, <<SessionUser[s], chat_id>>)
                /\ response' = JsonResponse(200)

(* ------------------------ summarize / ask ----------------------------- *)
\* position.lower().strip() on the tokens a client may send
LowerStrip(position) ==
    CASE position = " First" -> "first"
      [] position = "SECOND " -> "second"
      [] position = " THIRD " -> "third"
      [] OTHER -> position

\* summarize_document: the two error messages about the position
InvalidPosition(pos) ==
    <<"Invalid position: ", pos, ". Use ", "first", "second", "1", "or ", "2">>

PositionNotFound(pos, available) ==
    <<"Document ", pos, " not found. Only ", ToString(available),
      " document(s) available.">>

\* mutant of PositionIndex: an unknown token selects the second document
PositionIndexLenient(pos) == IF pos \in {"first", "1"} THEN 0 ELSE 1

\* summarize_document: doc_index of a position token, -1 for the else branch
PositionIndex(pos) ==
    IF pos \in {"first", "1"} THEN 0
    ELSE IF pos \in {"second", "2"} THEN 1
    ELSE -1

\* summarize_document: which document, if any, the request selects
\*   kind "single": doc is the entry to summarize
\*   kind "all":    every active document is summarized
\*   kind "error":  the request ends with status
ResolveDocument(active_documents, user, document_id, position) ==
    LET pos      == LowerStrip(position)
        idx      == PositionIndex(pos)
        hits     == {i \in DOMAIN active_documents :
                        active_documents[i].id = document_id}
        found    == FindDocument(document_id, user)
        document == CHOOSE d \in found : TRUE
        Error(status, error) ==
            [kind |-> "error", status |-> status, doc |-> <<>>, error |-> error]
        Single(doc)   ==
            [kind |-> "single", status |-> 200, doc |-> doc, error |-> <<>>]
    IN  IF pos # ""
        THEN IF idx = -1
             THEN Error(400, InvalidPosition(pos))
             ELSE IF idx < Len(active_documents)
                  THEN Single(active_documents[idx + 1])
                  ELSE Error(400, PositionNotFound(pos, Len(active_documents)))
        ELSE IF document_id # 0
        THEN IF hits # {}
             THEN Single(active_documents[CHOOSE i \in hits : \A j \in hits : i <= j])
             ELSE IF found = {}
                  THEN Error(StatusOfException(<<OnJsonError, OnException>>, "Http404"),
                             <<"No Document matches the given query.">>)
                  ELSE IF document.extracted_text = <<>>
                  THEN Error(400, <<"No text extracted from document">>)
                  ELSE Single([id |-> document.id, filename |-> document.filename,
                               text |-> document.extracted_text])
        ELSE IF active_documents = <<>>
             THEN Error(400, <<"No documents available to summarize">>)
             ELSE \* the response names f"{len(active_documents)} document(s)"
                  [kind |-> "all", status |-> 200,
                   doc |-> [id |-> 0,
                            filename |-> ToString(Len(active_documents))
                                            \o " document(s)",
                            text |-> <<>>],
                   error |-> <<>>]

\* active documents whose text the summarize-all loop does not skip
Summarizable(active_documents) ==
    {i \in DOMAIN active_documents : Strip(active_documents[i].text) # <<>>}

\* mutant of SummaryRecorded: the summary of every document is recorded too
SummaryRecordedAlsoAll(kind, blank, gateway, chat_id) ==
    kind \in {"single", "all"} /\ ~blank /\ gateway = "ok" /\ chat_id # NoChatId

\* summarize_document reaches its persistence block and chat_id is truthy:
\* only the single-document path gets there, after a successful gateway call
SummaryRecorded(kind, blank, gateway, chat_id) ==
    kind = "single" /\ ~blank /\ gateway = "ok" /\ chat_id # NoChatId

SummarizeDocument(s, document_id, position, chat_id, gateway, reply) ==
    LET user     == SessionUser[s]
        active   == ActiveDocuments(session[s], chat_id)
        res      == ResolveDocument(active, user, document_id, position)
        doc      == res.doc
        blank    == res.kind = "single" /\ Strip(doc.text) = <<>>
        calls    == IF res.kind = "error" \/ blank \/ gateway = "no_key" THEN 0
                    ELSE IF res.kind = "single" THEN 1
                    ELSE IF Summarizable(active) = {} THEN 0
                    ELSE IF gateway = "error" THEN 1
                    ELSE Cardinality(Summarizable(active))
        recorded == SummaryRecorded(res.kind, blank, gateway, chat_id)
        found    == FindChat(chat_id, user)
        chat     == IF found # {} THEN CHOOSE c \in found : TRUE
                    ELSE NewChat(chat_id, user, <<"Summary: ", doc.filename>>)
        saved    == RecordExchange(chat, <<"Summarize: ", doc.filename>>, reply)
        status   == IF res.kind = "error" THEN res.status
                    ELSE IF blank THEN 400
                    ELSE IF res.kind = "all" /\ Summarizable(active) = {} THEN 200
                    ELSE IF gateway = "no_key" THEN 500
                    ELSE IF gateway = "error"
                         THEN StatusOfException(<<OnJsonError, OnException>>, "APIError")
                    ELSE 200
    IN  /\ request' = [NoRequest EXCEPT !.op = "summarize_document", !.session = s,
                         !.chat_id = chat_id, !.document_id = document_id,
                         !.position = position,
                         !.gateway = IF res.kind = "error" \/ blank THEN "" ELSE gateway,
                         !.reply = IF recorded THEN reply ELSE <<>>]
        /\ UNCHANGED workers
        /\ gateway_calls' = calls
        /\ gateway_messages' = <<>>
        /\ UNCHANGED <<documents, next_document_id, session, uuid_count,
                       uploaded, purged>>
        /\ response' = [JsonResponse(status) EXCEPT
                          !.chat_id = IF status = 200 /\ res.kind = "single"
                                      THEN chat_id ELSE NoChatId,
                          !.error = res.error]
        /\ IF recorded
           THEN /\ chats' = (chats \ found) \cup {saved}
                /\ chat_turns' = DictDel(chat_turns, <<user, chat_id>>)
                /\ created' = IF found = {} THEN created + 1 ELSE created
                /\ new_session_id' = IF found = {} THEN chat.session_id ELSE 0
                /\ assigned' = IF found = {} /\ chat.session_id > assigned
                               THEN chat.session_id ELSE assigned
           ELSE /\ new_session_id' = 0
                /\ UNCHANGED <<chats, created, assigned, chat_turns>>

\* ask_document: title of a conversation it creates
AskTitle(question, filename) ==
    IF TitleFrom(question) = <<>> THEN <<"Document Q&A: ", filename>>
    ELSE TitleFrom(question)

\* mutant of HasText: every document passes
HasTextAlways(document) == TRUE

\* ask_document: `not document.extracted_text` is false
HasText(document) == document.extracted_text # <<>>

AskDocument(s, document_id, question_raw, chat_id, gateway, reply) ==
    LET user     == SessionUser[s]
        question == Strip(question_raw)
        docs     == FindDocument(document_id, user)
        document == CHOOSE d \in docs : TRUE
        status   == IF document_id = 0 THEN 400
                    ELSE IF question = <<>> THEN 400
                    ELSE IF docs = {}
                         THEN StatusOfException(<<OnJsonError, OnException>>, "Http404")
                    ELSE IF ~HasText(document) THEN 400
                    ELSE IF gateway = "no_key" THEN 500
                    ELSE IF gateway = "error"
                         THEN StatusOfException(<<OnJsonError, OnException>>, "APIError")
                    ELSE 200
        asked    == document_id # 0 /\ question # <<>> /\ docs # {}
                       /\ HasText(document)
        id       == IF chat_id = NoChatId THEN Uuid(uuid_count + 1) ELSE chat_id
        found    == FindChat(id, user)
        chat     == NewChat(id, user, AskTitle(question, document.filename))
        saved    == RecordExchange(chat, question, reply)
    IN  /\ request' = [NoRequest EXCEPT !.op = "ask_document", !.session = s,
                         !.chat_id = chat_id, !.document_id = document_id,
                         !.text = question_raw,
                         !.gateway = IF asked THEN gateway ELSE "",
                         !.reply = IF status = 200 THEN reply ELSE <<>>]
        /\ UNCHANGED workers
        /\ gateway_calls' = IF asked /\ gateway # "no_key" THEN 1 ELSE 0
        /\ gateway_messages' = <<>>
        /\ UNCHANGED <<documents, next_document_id, session, uploaded, purged,
                       chat_turns>>
        /\ IF status = 200
           THEN /\ response' = [JsonResponse(200) EXCEPT !.chat_id = id,
                                  !.document_id = document.id]
                /\ uuid_count' = IF chat_id = NoChatId THEN uuid_count + 1
                                 ELSE uuid_count
                /\ IF found = {}
                   THEN \* the turns are written inside the except branch only
                        /\ chats' = chats \cup {saved}
                        /\ created' = created + 1
                        /\ new_session_id' = chat.session_id
                        /\ assigned' = IF chat.session_id > assigned
                                       THEN chat.session_id ELSE assigned
                   ELSE /\ new_session_id' = 0
                        /\ UNCHANGED <<chats, created, assigned>>
           ELSE /\ response' = JsonResponse(status)
                /\ new_session_id' = 0
                /\ UNCHANGED <<chats, uuid_count, created, assigned>>

(* ------------------- requests that run step by step ------------------- *)
(* A request served by its own thread or process: every ORM call is one
   database statement and the session is read once and written once, so the
   statements of two requests interleave. A worker holds what the view keeps
   in local variables between its statements. *)
WorkerIds == 1..Requests

NoRow == [chat_id |-> NoChatId, user |-> "", session_id |-> 0, title |-> <<>>,
          conversation_history |-> <<>>, messages |-> <<>>]

Idle ==
    [pc |-> "idle", op |-> "none", session |-> "", chat_id |-> NoChatId,
     text |-> <<>>, reply |-> <<>>, file |-> NoFile,
     existed |-> FALSE,          \* Chat.objects.get found the conversation
     chat |-> NoRow,             \* the Chat instance held by the view
     session_id |-> 0,           \* the value get_next_session_id returned
     chat_documents |-> EmptyDict,   \* the session data as loaded
     document_id |-> 0, status |-> 0]

\* what a worker sends and what the gateway answers it: told apart by worker
WorkerMessage(w) == <<"m", ToString(w)>>
WorkerReply(w)   == <<"r", ToString(w)>>

At(w, pc) == workers[w].pc = pc

Goto(w, pc) == [workers EXCEPT ![w].pc = pc]

\* only the stores that the statements of a worker write may change
WorkerFrame ==
    UNCHANGED <<next_document_id, uuid_count, request, response, gateway_calls,
                created, new_session_id, assigned, uploaded, purged,
                gateway_messages, chat_turns>>

\* mutant of CreateAllowed: session_id is unique per owner only
CreateAllowedPerOwner(row, rows) ==
    \A c \in rows :
       /\ ~(c.session_id = row.session_id /\ c.user = row.user)
       /\ ~(c.chat_id = row.chat_id /\ c.user = row.user)

\* the INSERT of a Chat row passes the constraints of the table:
\* session_id unique, (chat_id, user) unique together
CreateAllowed(row, rows) ==
    \A c \in rows :
       /\ c.session_id # row.session_id
       /\ ~(c.chat_id = row.chat_id /\ c.user = row.user)

\* the stored row of the Chat instance a worker holds
StoredRow(w) ==
    CHOOSE c \in chats : c.chat_id = workers[w].chat.chat_id
                            /\ c.user = workers[w].chat.user

\* Model.save(): every field of the instance is written to its row; the
\* ChatMessage rows live in their own table
SaveInstance(rows, stored, chat) ==
    (rows \ {stored}) \cup
       {[stored EXCEPT !.title = chat.title, !.session_id = chat.session_id,
                       !.conversation_history = chat.conversation_history]}

\* chat, after the gateway has answered: the request enters the try block
\* of the persistence part
StartChat(w, s, chat_id) ==
    /\ At(w, "idle")
    /\ workers' = [workers EXCEPT ![w] =
                     [Idle EXCEPT !.pc = "get", !.op = "chat", !.session = s,
                                  !.chat_id = chat_id,
                                  !.text = UserMessage(WorkerMessage(w)),
                                  !.reply = WorkerReply(w)]]
    /\ WorkerFrame
    /\ UNCHANGED <<chats, documents, session>>

\* chat = Chat.objects.get(chat_id=chat_id, user=request.user)
ChatGet(w) ==
    LET found == FindChat(workers[w].chat_id, SessionUser[workers[w].session])
    IN  /\ At(w, "get")
        /\ workers' =
              IF found # {}
              THEN [workers EXCEPT ![w].pc = "create_user_message",
                                   ![w].existed = TRUE,
                                   ![w].chat = CHOOSE c \in found : TRUE]
              ELSE Goto(w, "get_next_session_id")
        /\ WorkerFrame
        /\ UNCHANGED <<chats, documents, session>>

\* session_id = Chat.get_next_session_id()
ChatGetNextSessionId(w) ==
    /\ At(w, "get_next_session_id")
    /\ workers' = [workers EXCEPT ![w].pc = "create",
                                  ![w].session_id = NextSessionId(chats)]
    /\ WorkerFrame
    /\ UNCHANGED <<chats, documents, session>>

\* chat = Chat.objects.create(...); an IntegrityError is caught by the view's
\* `except Exception` and answered with 500
ChatCreate(w) ==
    LET me  == workers[w]
        row == [NewChat(me.chat_id, SessionUser[me.session], ChatTitle(me.text))
                   EXCEPT !.session_id = me.session_id]
    IN  /\ At(w, "create")
        /\ WorkerFrame
        /\ UNCHANGED <<documents, session>>
        /\ IF CreateAllowed(row, chats)
           THEN /\ chats' = chats \cup {row}
                /\ workers' = [workers EXCEPT ![w].pc = "create_user_message",
                                              ![w].chat = row]
           ELSE /\ UNCHANGED chats
                /\ workers' = [workers EXCEPT ![w].pc = "done",
                       ![w].status =
                          StatusOfException(<<OnJsonError, OnException>>,
                                            "IntegrityError")]

\* ChatMessage.objects.create(chat=chat, role='user', content=user_message)
ChatCreateUserMessage(w) ==
    /\ At(w, "create_user_message")
    /\ chats' = (chats \ {StoredRow(w)}) \cup
                   {CreateMessage(StoredRow(w), "user", workers[w].text)}
    /\ workers' = Goto(w, "create_assistant_message")
    /\ WorkerFrame
    /\ UNCHANGED <<documents, session>>

\* ChatMessage.objects.create(chat=chat, role='assistant', content=ai_response)
ChatCreateAssistantMessage(w) ==
    /\ At(w, "create_assistant_message")
    /\ chats' = (chats \ {StoredRow(w)}) \cup
                   {CreateMessage(StoredRow(w), "assistant", workers[w].reply)}
    /\ workers' = Goto(w, "add_user_to_history")
    /\ WorkerFrame
    /\ UNCHANGED <<documents, session>>

\* chat.add_to_history('user', user_message): append to the instance, save()
ChatAddUserToHistory(w) ==
    LET chat == AddToHistory(workers[w].chat, "user", workers[w].text)
    IN  /\ At(w, "add_user_to_history")
        /\ chats' = SaveInstance(chats, StoredRow(w), chat)
        /\ workers' = [workers EXCEPT ![w].pc = "add_assistant_to_history",
                                      ![w].chat = chat]
        /\ WorkerFrame
        /\ UNCHANGED <<documents, session>>

\* chat.add_to_history('assistant', ai_response)
ChatAddAssistantToHistory(w) ==
    LET chat == AddToHistory(workers[w].chat, "assistant", workers[w].reply)
    IN  /\ At(w, "add_assistant_to_history")
        /\ chats' = SaveInstance(chats, StoredRow(w), chat)
        /\ workers' = [workers EXCEPT ![w].pc = "retitle", ![w].chat = chat]
        /\ WorkerFrame
        /\ UNCHANGED <<documents, session>>

\* the title update, then the success response
ChatRetitle(w) ==
    LET chat == RetitleAfterChat(workers[w].chat, workers[w].text)
    IN  /\ At(w, "retitle")
        /\ chats' = IF chat # workers[w].chat
                    THEN SaveInstance(chats, StoredRow(w), chat)
                    ELSE chats
        /\ workers' = [workers EXCEPT ![w].pc = "done", ![w].chat = chat,
                                      ![w].status = 200]
        /\ WorkerFrame
        /\ UNCHANGED <<documents, session>>

\* upload_document: the request starts; login_required reads request.user,
\* which loads the session data
StartUpload(w, s, chat_id, file) ==
    /\ At(w, "idle")
    /\ workers' = [workers EXCEPT ![w] =
                     [Idle EXCEPT !.pc = "store", !.op = "upload_document",
                                  !.session = s, !.chat_id = chat_id,
                                  !.file = file,
                                  !.chat_documents = session[s]]]
    /\ WorkerFrame
    /\ UNCHANGED <<chats, documents, session>>

\* Document.objects.create, then the new list is put into the loaded
\* session data
UploadStore(w) ==
    LET me == workers[w]
        extracted_text == ExtractText(me.file.content)
        document == [id |-> next_document_id, user |-> SessionUser[me.session],
                     filename |-> me.file.name, extracted_text |-> extracted_text]
        entry == [id |-> document.id, filename |-> document.filename,
                  text |-> TruncateForCache(extracted_text)]
        active_documents ==
            Upsert(ActiveForUpload(me.chat_documents, me.chat_id), entry)
    IN  /\ At(w, "store")
        /\ documents' = documents \cup {document}
        /\ next_document_id' = next_document_id + 1
        /\ workers' =
              IF HasCacheableText(extracted_text)
              THEN [workers EXCEPT ![w].pc = "save_session",
                       ![w].document_id = document.id,
                       ![w].chat_documents =
                           DictPut(@, StorageKey(me.chat_id), active_documents)]
              ELSE [workers EXCEPT ![w].pc = "done", ![w].status = 200,
                                   ![w].document_id = document.id]
        /\ UNCHANGED <<uuid_count, request, response, gateway_calls,
                       created, new_session_id, assigned, uploaded, purged,
                       gateway_messages, chat_turns, chats, session>>

\* the response leaves: SessionMiddleware saves the modified session, the
\* whole of the data the request holds
UploadSaveSession(w) ==
    /\ At(w, "save_session")
    /\ session' = [session EXCEPT ![workers[w].session] = workers[w].chat_documents]
    /\ workers' = [workers EXCEPT ![w].pc = "done", ![w].status = 200]
    /\ WorkerFrame
    /\ UNCHANGED <<chats, documents>>

(* --------------------------- specifications --------------------------- *)
Init ==
    /\ documents = {}
    /\ next_document_id = 1
    /\ session = [s \in AllSessions |-> EmptyDict]
    /\ chats = {}
    /\ uuid_count = 0
    /\ request = NoRequest
    /\ response = NoResponse
    /\ gateway_calls = 0
    /\ created = 0
    /\ new_session_id = 0
    /\ assigned = 0
    /\ uploaded = [s \in AllSessions |-> NoUploads]
    /\ purged = [s \in AllSessions |-> {}]
    /\ gateway_messages = <<>>
    /\ chat_turns = EmptyDict
    /\ workers = [w \in WorkerIds |-> Idle]

\* what a run has created so far stays within the given numbers
Within(docs, rows, turns) ==
    /\ next_document_id <= docs + 1
    /\ created <= rows
    /\ \A c \in chats : /\ Len(c.messages) <= turns
                        /\ Len(c.conversation_history) <= turns

DocumentIds(n) == 1..n

\* conversation ids a client addresses: its own, or one a response gave it
ClientChatIds == {"c1"} \cup {Uuid(n) : n \in 1..uuid_count}

(* the document cache on its own: upload, clear, delete; uploads fill the
   keys "c1" and 'default' *)
DocsUpload ==
    \E s \in Sessions, chat_id \in {"c1", NoChatId}, file \in Files :
       /\ UploadDocument(s, chat_id, file)
       /\ Within(MaxDocs, 0, 0)'

DocsClear ==
    \E s \in Sessions, chat_id \in ChatIds \cup {NoChatId} :
       ClearChatDocuments(s, chat_id)

DocsDelete ==
    \E s \in Sessions, document_id \in DocumentIds(MaxDocs) :
       DeleteDocument(s, document_id)

NextDocs == DocsUpload \/ DocsClear \/ DocsDelete

SpecDocs == Init /\ [][NextDocs]_vars

(* every handler, with every kind of input *)
AllUpload ==
    \E s \in Sessions, chat_id \in {"c1", NoChatId}, file \in Files :
       /\ UploadDocument(s, chat_id, file)
       /\ Within(FlowDocs, FlowChats, MaxTurns)'

AllClear ==
    \E s \in Sessions, chat_id \in {"c1", NoChatId} : ClearChatDocuments(s, chat_id)

AllDeleteDocument ==
    \E s \in Sessions, document_id \in DocumentIds(FlowDocs) :
       DeleteDocument(s, document_id)

AllChat ==
    \E s \in Sessions, chat_id \in ClientChatIds \cup {NoChatId},
       message \in RawMessages, gateway \in Gateways, reply \in Replies :
       /\ Chat(s, chat_id, message, gateway, reply)
       /\ Within(FlowDocs, FlowChats, MaxTurns)'

AllGetChat == \E s \in Sessions, chat_id \in ClientChatIds : GetChat(s, chat_id)

AllSaveChat ==
    \E s \in Sessions, chat_id \in ClientChatIds,
       title \in Titles, messages_data \in MessageLists :
       /\ SaveChat(s, chat_id, title, messages_data)
       /\ Within(FlowDocs, FlowChats, MaxTurns)'

AllDeleteChat == \E s \in Sessions, chat_id \in ClientChatIds : DeleteChat(s, chat_id)

AllSummarize ==
    \E s \in Sessions, document_id \in {0} \cup DocumentIds(FlowDocs),
       position \in {"", " First"}, chat_id \in {"c1", NoChatId},
       gateway \in Gateways, reply \in Replies :
       /\ SummarizeDocument(s, document_id, position, chat_id, gateway, reply)
       /\ Within(FlowDocs, FlowChats, MaxTurns)'

AllAsk ==
    \E s \in Sessions, document_id \in {0} \cup DocumentIds(FlowDocs),
       question \in {<<>>, <<" ", "a">>}, chat_id \in {"c1", NoChatId},
       gateway \in Gateways, reply \in Replies :
       /\ AskDocument(s, document_id, question, chat_id, gateway, reply)
       /\ Within(FlowDocs, FlowChats, MaxTurns)'

Next ==
    \/ AllUpload \/ AllClear \/ AllDeleteDocument
    \/ AllChat \/ AllGetChat \/ AllSaveChat \/ AllDeleteChat
    \/ AllSummarize \/ AllAsk

Spec == Init /\ [][Next]_vars

(* conversation numbering: every handler that creates or deletes a Chat row,
   both owners, every call succeeding; one uploaded document serves the
   document handlers *)
TextFile == [present |-> TRUE, size |-> 1, name |-> "f.txt", content |-> <<" ", "a">>]

NumUpload ==
    \E s \in Sessions :
       /\ UploadDocument(s, "c1", TextFile)
       /\ Within(1, MaxChats, MaxTurns)'

NumChat ==
    \E s \in Sessions, chat_id \in ClientChatIds \cup {NoChatId}, reply \in Replies :
       /\ Chat(s, chat_id, <<" ", "a">>, "ok", reply)
       /\ Within(1, MaxChats, MaxTurns)'

NumSaveChat ==
    \E s \in Sessions, chat_id \in ClientChatIds :
       /\ SaveChat(s, chat_id, NewChatTitle, <<>>)
       /\ Within(1, MaxChats, MaxTurns)'

NumSummarize ==
    \E s \in Sessions, reply \in Replies :
       /\ SummarizeDocument(s, 0, " First", "c1", "ok", reply)
       /\ Within(1, MaxChats, MaxTurns)'

NumAsk ==
    \E s \in Sessions, document_id \in DocumentIds(1),
       chat_id \in ClientChatIds \cup {NoChatId}, reply \in Replies :
       /\ AskDocument(s, document_id, <<" ", "a">>, chat_id, "ok", reply)
       /\ Within(1, MaxChats, MaxTurns)'

NumDeleteChat == \E s \in Sessions, chat_id \in ClientChatIds : DeleteChat(s, chat_id)

NextNumbering ==
    \/ NumUpload \/ NumChat \/ NumSaveChat \/ NumSummarize \/ NumAsk
    \/ NumDeleteChat

SpecNumbering == Init /\ [][NextNumbering]_vars

(* the three handlers that call the gateway, for both owners, with every
   gateway behaviour and every kind of message *)
GwUpload ==
    \E s \in Sessions :
       /\ UploadDocument(s, "c1", TextFile)
       /\ Within(FlowDocs, FlowChats, MaxTurns)'

GwChat ==
    \E s \in Sessions, chat_id \in {"c1", NoChatId}, message \in RawMessages,
       gateway \in Gateways, reply \in Replies :
       /\ Chat(s, chat_id, message, gateway, reply)
       /\ Within(FlowDocs, FlowChats, MaxTurns)'

GwSummarize ==
    \E s \in Sessions, document_id \in {0} \cup DocumentIds(FlowDocs),
       position \in {"", " First"}, chat_id \in {"c1"},
       gateway \in Gateways, reply \in Replies :
       /\ SummarizeDocument(s, document_id, position, chat_id, gateway, reply)
       /\ Within(FlowDocs, FlowChats, MaxTurns)'

GwAsk ==
    \E s \in Sessions, document_id \in DocumentIds(FlowDocs),
       chat_id \in {"c1", NoChatId}, gateway \in Gateways, reply \in Replies :
       /\ AskDocument(s, document_id, <<" ", "a">>, chat_id, gateway, reply)
       /\ Within(FlowDocs, FlowChats, MaxTurns)'

GwDeleteChat == \E s \in Sessions : DeleteChat(s, "c1")

NextGateway == GwUpload \/ GwChat \/ GwSummarize \/ GwAsk \/ GwDeleteChat

SpecGateway == Init /\ [][NextGateway]_vars

(* requests that summarize_document and ask_document reject or accept:
   known and unknown position tokens, documents with and without text, own
   and foreign document ids; the gateway answers every call *)
BlankFile == [present |-> TRUE, size |-> 1, name |-> "f.txt", content |-> <<" ">>]

EmptyFile == [present |-> TRUE, size |-> 1, name |-> "f.txt", content |-> <<>>]

RejUpload ==
    \E s \in Sessions, file \in {TextFile, BlankFile} :
       /\ UploadDocument(s, "c1", file)
       /\ Within(RejectDocs, FlowChats, MaxTurns)'

RejSummarize ==
    \E s \in Sessions, document_id \in {0} \cup DocumentIds(RejectDocs),
       position \in {"", "2", "third", " THIRD "}, chat_id \in {"c1", NoChatId},
       reply \in Replies :
       /\ SummarizeDocument(s, document_id, position, chat_id, "ok", reply)
       /\ Within(RejectDocs, FlowChats, MaxTurns)'

RejAsk ==
    \E s \in Sessions, document_id \in {0} \cup DocumentIds(RejectDocs),
       question \in {<<" ">>, <<" ", "a">>}, reply \in Replies :
       /\ AskDocument(s, document_id, question, "c1", "ok", reply)
       /\ Within(RejectDocs, FlowChats, MaxTurns)'

NextReject == RejUpload \/ RejSummarize \/ RejAsk

SpecReject == Init /\ [][NextReject]_vars

(* conversations built by chat turns and read back: both owners, two
   messages and two replies to tell the turns apart *)
TripMessages == {<<"a">>, <<" ", "b">>}
TripReplies  == {<<"r">>, <<"q">>}

TripChat ==
    \E s \in Sessions, chat_id \in ClientChatIds \cup {NoChatId},
       message \in TripMessages, reply \in TripReplies :
       /\ Chat(s, chat_id, message, "ok", reply)
       /\ Within(0, FlowChats, TripTurns)'

TripGetChat == \E s \in Sessions, chat_id \in ClientChatIds : GetChat(s, chat_id)

TripDeleteChat == \E s \in Sessions, chat_id \in ClientChatIds : DeleteChat(s, chat_id)

NextRoundTrip == TripChat \/ TripGetChat \/ TripDeleteChat

SpecRoundTrip == Init /\ [][NextRoundTrip]_vars

(* save_chat called again and again: both owners, one chat_id, every pair
   of title and message list, deletions in between *)
SaveLists ==
    {<<>>,
     <<[role |-> "user", content |-> <<"b">>]>>,
     <<[role |-> "user", content |-> <<"a">>],
       [role |-> "assistant", content |-> <<"r">>]>>}

SaveSaveChat ==
    \E s \in Sessions, title \in Titles, messages_data \in SaveLists :
       /\ SaveChat(s, "c1", title, messages_data)
       /\ Within(0, SaveChats, MaxTurns)'

SaveGetChat == \E s \in Sessions : GetChat(s, "c1")

SaveDeleteChat == \E s \in Sessions : DeleteChat(s, "c1")

NextSave == SaveSaveChat \/ SaveGetChat \/ SaveDeleteChat

SpecSave == Init /\ [][NextSave]_vars

(* what chat hands to the gateway: zero, one or two active documents, a
   history with and without system entries, both owners *)
OtherFile == [present |-> TRUE, size |-> 1, name |-> "g.txt", content |-> <<"b">>]

Histories ==
    {<<>>,
     <<[role |-> "system", content |-> <<"x">>],
       [role |-> "user", content |-> <<"b">>],
       [role |-> "assistant", content |-> <<"r">>]>>,
     <<[role |-> "assistant", content |-> <<"r">>],
       [role |-> "system", content |-> <<"x">>]>>}

PromptUpload ==
    \E s \in Sessions, file \in {TextFile, OtherFile} :
       /\ UploadDocument(s, "c1", file)
       /\ Within(PromptDocs, FlowChats, MaxTurns)'

PromptClear == \E s \in Sessions : ClearChatDocuments(s, "c1")

PromptChat ==
    \E s \in Sessions, chat_id \in {"c1", NoChatId},
       conversation_history \in Histories, gateway \in {"ok", "error"},
       reply \in Replies :
       /\ ChatWithHistory(s, chat_id, <<" ", "a">>, conversation_history,
                          gateway, reply)
       /\ Within(PromptDocs, FlowChats, MaxTurns)'

NextPrompt == PromptUpload \/ PromptClear \/ PromptChat

SpecPrompt == Init /\ [][NextPrompt]_vars

(* long texts: files whose text is just at and just over the cache limit *)
TextOfLength(n) == [i \in 1..n |-> "a"]

FileOfLength(n) ==
    [present |-> TRUE, size |-> n, name |-> "f.txt", content |-> TextOfLength(n)]

CutFiles == {TextFile, FileOfLength(max_text_length),
             FileOfLength(max_text_length + 1)}

CutUpload ==
    \E chat_id \in {"c1", NoChatId}, file \in CutFiles :
       /\ UploadDocument("s1", chat_id, file)
       /\ Within(LongDocs, 0, 0)'

CutClear == ClearChatDocuments("s1", "c1")

CutDelete == \E document_id \in DocumentIds(LongDocs) : DeleteDocument("s1", document_id)

NextCut == CutUpload \/ CutClear \/ CutDelete

SpecCut == Init /\ [][NextCut]_vars

(* long texts in a chat turn: texts just at and just over the context limit *)
InjectFiles == {FileOfLength(ContextLength), FileOfLength(ContextLength + 1)}

InjectUpload ==
    \E file \in InjectFiles :
       /\ UploadDocument("s1", "c1", file)
       /\ Within(LongDocs, FlowChats, MaxTurns)'

InjectClear == ClearChatDocuments("s1", "c1")

InjectChat ==
    \E chat_id \in {"c1", NoChatId}, gateway \in {"ok", "error"} :
       /\ Chat("s1", chat_id, <<"a">>, gateway, <<"r">>)
       /\ Within(LongDocs, FlowChats, MaxTurns)'

NextInject == InjectUpload \/ InjectClear \/ InjectChat

SpecInject == Init /\ [][NextInject]_vars

(* two owners on the same conversation id and the same document ids: owner A
   sends file f.txt and the text a, owner B file g.txt and the text b *)
OwnerFile    == [s \in Sessions |-> IF s = "s1" THEN TextFile ELSE OtherFile]

OwnerMessage == [s \in Sessions |-> IF s = "s1" THEN <<"a">> ELSE <<"b">>]

OwnerUpload ==
    \E s \in Sessions :
       /\ UploadDocument(s, "c1", OwnerFile[s])
       /\ Within(OwnerDocs, OwnerChats, MaxTurns)'

OwnerDeleteDocument ==
    \E s \in Sessions, document_id \in DocumentIds(OwnerDocs) :
       DeleteDocument(s, document_id)

OwnerGetDocuments == \E s \in Sessions : GetDocuments(s)

OwnerChat ==
    \E s \in Sessions :
       /\ Chat(s, "c1", OwnerMessage[s], "ok", <<"r">>)
       /\ Within(OwnerDocs, OwnerChats, MaxTurns)'

OwnerGetChat == \E s \in Sessions : GetChat(s, "c1")

OwnerGetChats == \E s \in Sessions : GetChats(s)

OwnerSaveChat ==
    \E s \in Sessions :
       /\ SaveChat(s, "c1", <<"t">>, <<[role |-> "user", content |-> OwnerMessage[s]]>>)
       /\ Within(OwnerDocs, OwnerChats, MaxTurns)'

OwnerDeleteChat == \E s \in Sessions : DeleteChat(s, "c1")

OwnerSummarize ==
    \E s \in Sessions, document_id \in DocumentIds(OwnerDocs) :
       /\ SummarizeDocument(s, document_id, "", "c1", "ok", <<"r">>)
       /\ Within(OwnerDocs, OwnerChats, MaxTurns)'

OwnerAsk ==
    \E s \in Sessions, document_id \in DocumentIds(OwnerDocs) :
       /\ AskDocument(s, document_id, OwnerMessage[s], "c1", "ok", <<"r">>)
       /\ Within(OwnerDocs, OwnerChats, MaxTurns)'

NextOwners ==
    \/ OwnerUpload \/ OwnerDeleteDocument \/ OwnerGetDocuments
    \/ OwnerChat \/ OwnerGetChat \/ OwnerGetChats \/ OwnerSaveChat
    \/ OwnerDeleteChat \/ OwnerSummarize \/ OwnerAsk

SpecOwners == Init /\ [][NextOwners]_vars

(* the keys of the document cache: one session uploads into the conversation
   ids "c1" and "default" and without a conversation id, and chats under each;
   the file name tells which conversation id a document was uploaded with *)
KeyChatIds == {"c1", "default", NoChatId}

KeyFile ==
    [chat_id \in KeyChatIds |->
        [present |-> TRUE, size |-> 1,
         name |-> CASE chat_id = "c1" -> "f.txt"
                    [] chat_id = "default" -> "g.txt"
                    [] OTHER -> "h.txt",
         content |-> <<"a">>]]

KeyUpload ==
    \E chat_id \in KeyChatIds :
       /\ UploadDocument("s1", chat_id, KeyFile[chat_id])
       /\ Within(KeyDocs, FlowChats, MaxTurns)'

KeyChat ==
    \E chat_id \in KeyChatIds,
       conversation_history \in {<<>>, <<[role |-> "user", content |-> <<"b">>]>>} :
       /\ ChatWithHistory("s1", chat_id, <<"a">>, conversation_history, "ok", <<"r">>)
       /\ Within(KeyDocs, FlowChats, MaxTurns)'

KeyClear == \E chat_id \in KeyChatIds : ClearChatDocuments("s1", chat_id)

NextKeys == KeyUpload \/ KeyChat \/ KeyClear

SpecKeys == Init /\ [][NextKeys]_vars

(* one owner with two authenticated sessions: uploads with and without text,
   deletions and clears through either session *)
OwnSessions == {s \in AllSessions : SessionUser[s] = "A"}

SessionUpload ==
    \E s \in OwnSessions, chat_id \in {"c1", NoChatId},
       file \in {TextFile, BlankFile, EmptyFile} :
       /\ UploadDocument(s, chat_id, file)
       /\ Within(SessionDocs, 0, 0)'

SessionDeleteDocument ==
    \E s \in OwnSessions, document_id \in DocumentIds(SessionDocs) :
       DeleteDocument(s, document_id)

SessionClear == \E s \in OwnSessions : ClearChatDocuments(s, "c1")

NextSessions == SessionUpload \/ SessionDeleteDocument \/ SessionClear

SpecSessions == Init /\ [][NextSessions]_vars

(* the conversation store varied under the same chat request: one session
   saves, deletes and chats in conversation "c1", with and without a cached
   document *)
StoreUpload ==
    /\ UploadDocument("s1", "c1", TextFile)
    /\ Within(FlowDocs, FlowChats, StoreTurns)'

StoreSaveChat ==
    \E title \in Titles, messages_data \in MessageLists :
       /\ SaveChat("s1", "c1", title, messages_data)
       /\ Within(FlowDocs, FlowChats, StoreTurns)'

StoreDeleteChat == DeleteChat("s1", "c1")

StoreChat ==
    \E conversation_history \in {<<>>, <<[role |-> "user", content |-> <<"b">>]>>},
       gateway \in {"ok", "error"} :
       /\ ChatWithHistory("s1", "c1", <<"a">>, conversation_history, gateway, <<"r">>)
       /\ Within(FlowDocs, FlowChats, StoreTurns)'

NextStore == StoreUpload \/ StoreSaveChat \/ StoreDeleteChat \/ StoreChat

SpecStore == Init /\ [][NextStore]_vars

(* concurrent chat requests of both owners for conversation "c1", which a
   save_chat may have created before or in between *)
ConcSaveChat ==
    \E s \in Sessions :
       /\ FindChat("c1", SessionUser[s]) = {}
       /\ SaveChat(s, "c1", NewChatTitle, <<>>)
       /\ Within(0, FlowChats, MaxTurns)'

ConcStartChat == \E w \in WorkerIds, s \in Sessions : StartChat(w, s, "c1")

ConcChatGet == \E w \in WorkerIds : ChatGet(w)

ConcChatGetNextSessionId == \E w \in WorkerIds : ChatGetNextSessionId(w)

ConcChatCreate == \E w \in WorkerIds : ChatCreate(w)

ConcChatCreateUserMessage == \E w \in WorkerIds : ChatCreateUserMessage(w)

ConcChatCreateAssistantMessage == \E w \in WorkerIds : ChatCreateAssistantMessage(w)

ConcChatAddUserToHistory == \E w \in WorkerIds : ChatAddUserToHistory(w)

ConcChatAddAssistantToHistory == \E w \in WorkerIds : ChatAddAssistantToHistory(w)

ConcChatRetitle == \E w \in WorkerIds : ChatRetitle(w)

NextConcurrentChat ==
    \/ ConcSaveChat \/ ConcStartChat \/ ConcChatGet \/ ConcChatGetNextSessionId
    \/ ConcChatCreate \/ ConcChatCreateUserMessage
    \/ ConcChatCreateAssistantMessage \/ ConcChatAddUserToHistory
    \/ ConcChatAddAssistantToHistory \/ ConcChatRetitle

SpecConcurrentChat == Init /\ [][NextConcurrentChat]_vars

(* concurrent uploads of one session into the conversation ids "c1" and "c2" *)
ConcStartUpload ==
    \E w \in WorkerIds, chat_id \in {"c1", "c2"} :
       StartUpload(w, "s1", chat_id, TextFile)

ConcUploadStore == \E w \in WorkerIds : UploadStore(w)

ConcUploadSaveSession == \E w \in WorkerIds : UploadSaveSession(w)

ConcClear == \E chat_id \in {"c1", "c2"} : ClearChatDocuments("s1", chat_id)

NextConcurrentUpload ==
    ConcStartUpload \/ ConcUploadStore \/ ConcUploadSaveSession \/ ConcClear

SpecConcurrentUpload == Init /\ [][NextConcurrentUpload]_vars

(* ===================== claims on the document cache =================== *)
Ids(active_documents) == [i \in DOMAIN active_documents |-> active_documents[i].id]

Occurrences(active_documents, id) ==
    Cardinality({i \in DOMAIN active_documents : active_documents[i].id = id})

CachedUpload ==
    /\ request.op = "upload_document"
    /\ response.status = 200
    /\ request.chat_id # NoChatId
    /\ Strip(ExtractText(request.file.content)) # <<>>

\* C1: every key of every session's document cache maps to at most 2 entries
\* with pairwise different document ids, and directly after an upload with a
\* conversation id and non-blank extracted text that conversation's list holds
\* the uploaded document exactly once.
C1_CacheCappedAndDistinct ==
    /\ \A s \in Sessions : \A k \in DOMAIN session[s] :
          /\ Len(session[s][k]) <= 2
          /\ \A i, j \in DOMAIN session[s][k] :
                session[s][k][i].id = session[s][k][j].id => i = j
    /\ CachedUpload =>
          Occurrences(DictGet(session[request.session], request.chat_id),
                      response.document_id) = 1

\* an upload into a conversation whose list was already full: the oldest is evicted
C1_Witness ==
    /\ CachedUpload
    /\ Len(uploaded[request.session][request.chat_id]) = 3
    /\ Len(session[request.session][request.chat_id]) = 2

DeleteSucceeded ==
    request.op = "delete_document" /\ response.status = 200

\* C3: after delete_document(d) succeeds in a session, no key of that session's
\* cache holds d, each key keeps its other entries in their previous order,
\* and d is in no list of that session's cache at any later time.
C3_DeletePurgesEveryKey ==
    /\ [][DeleteSucceeded' =>
            LET s == request'.session
                d == request'.document_id
            IN  /\ DOMAIN session'[s] \subseteq DOMAIN session[s]
                /\ \A k \in DOMAIN session[s] :
                      /\ Occurrences(DictGet(session'[s], k), d) = 0
                      /\ DictGet(session'[s], k) = WithoutId(session[s][k], d)]_vars
    /\ [](\A s \in Sessions : \A d \in purged[s] : \A k \in DOMAIN session[s] :
            Occurrences(session[s][k], d) = 0)

\* a delete that removed the document from a list that keeps another entry
C3_Witness ==
    /\ DeleteSucceeded
    /\ \E k \in DOMAIN session[request.session] :
          /\ Len(session[request.session][k]) = 1
          /\ session[request.session][k][1].id > request.document_id

(* ==================== claims on the conversation store ================ *)
RequestUser(req) == SessionUser[req.session]

Rows(table, chat_id, user) ==
    {c \in table : c.chat_id = chat_id /\ c.user = user}

\* turn records / turn list of (chat_id, user) in table, empty when absent
Records(table, chat_id, user) ==
    IF Rows(table, chat_id, user) = {} THEN <<>>
    ELSE (CHOOSE c \in Rows(table, chat_id, user) : TRUE).messages

TurnList(table, chat_id, user) ==
    IF Rows(table, chat_id, user) = {} THEN <<>>
    ELSE (CHOOSE c \in Rows(table, chat_id, user) : TRUE).conversation_history

\* the last request was a recorded flow: general chat, single-document
\* summarize with a conversation id, or document Q&A
RecordedFlow(req) ==
    \/ req.op \in {"chat", "ask_document"}
    \/ /\ req.op = "summarize_document"
       /\ req.chat_id # NoChatId
       /\ (LowerStrip(req.position) # "" \/ req.document_id # 0)

TwoTurns(before, after, reply) ==
    /\ Len(after) = Len(before) + 2
    /\ SubSeq(after, 1, Len(before)) = before
    /\ after[Len(after) - 1].role = "user"
    /\ after[Len(after)] = [role |-> "assistant", content |-> reply]

\* C4: after a successful model call in a recorded flow exactly two turns,
\* user-side then assistant-side, are appended to both the conversation's turn
\* records and its turn list, whether the conversation existed or not.
C4_TwoTurnsAppended ==
    [][(RecordedFlow(request') /\ response'.status = 200 /\ gateway_calls' = 1) =>
         LET id   == response'.chat_id
             user == RequestUser(request')
         IN  /\ Cardinality(Rows(chats', id, user)) = 1
             /\ TwoTurns(Records(chats, id, user), Records(chats', id, user),
                         request'.reply)
             /\ TwoTurns(TurnList(chats, id, user), TurnList(chats', id, user),
                         request'.reply)]_vars

\* C5: each conversation's turn list is empty or equal to its turn records in
\* creation order.
C5_TurnListMatchesRecords ==
    \A c \in chats :
        c.conversation_history = <<>> \/ c.conversation_history = c.messages

\* C6: the sequence number given to a newly created conversation is greater
\* than every sequence number given before it.
C6_NumbersNeverReused ==
    [][new_session_id' # 0 => new_session_id' > assigned]_vars

StoredNumbers == {c.session_id : c \in chats}

Missing(req, table, docs, cache) ==
    LET user   == RequestUser(req)
        theirs == {d \in docs : d.id = req.document_id /\ d.user = user}
        active == ActiveDocuments(cache[req.session], req.chat_id)
    IN  \/ /\ req.op \in {"get_chat", "delete_chat"}
           /\ Rows(table, req.chat_id, user) = {}
        \/ /\ req.op = "delete_document"
           /\ theirs = {}
        \/ /\ req.op = "ask_document"
           /\ req.document_id # 0 /\ Strip(req.text) # <<>>
           /\ theirs = {}
        \/ /\ req.op = "summarize_document"
           /\ LowerStrip(req.position) = "" /\ req.document_id # 0
           /\ Occurrences(active, req.document_id) = 0
           /\ theirs = {}

\* C8: a request for an absent or foreign conversation or document is answered
\* with 404 and changes neither the durable stores nor the session cache.
C8_MissingIsNotFound ==
    [][Missing(request', chats, documents, session) =>
         /\ response'.status = 404
         /\ UNCHANGED <<chats, documents, session>>]_vars

GatewayFailed == request.gateway = "error" /\ gateway_calls >= 1

\* C9: when the gateway call of a chat turn, a single-document summarize or a
\* document Q&A fails, the request ends in an error and the conversation store
\* is unchanged; these handlers change the store only after a successful call.
C9_NoPersistenceOnGatewayFailure ==
    /\ [][GatewayFailed' =>
            /\ response'.status = 500
            /\ UNCHANGED <<chats, created, uuid_count>>]_vars
    /\ [][(chats' # chats
             /\ request'.op \in {"chat", "summarize_document", "ask_document"}) =>
            /\ request'.gateway = "ok"
            /\ gateway_calls' >= 1
            /\ response'.status = 200]_vars

\* a chat turn on an existing conversation whose gateway call failed
C9_Witness ==
    /\ GatewayFailed
    /\ request.op = "chat"
    /\ response.status = 500
    /\ Rows(chats, request.chat_id, RequestUser(request)) # {}

BlankChat == request.op = "chat" /\ Strip(request.text) = <<>>

\* C10: a chat request with an empty or whitespace-only message is rejected
\* with 400 before any gateway call and leaves the conversation store, the turn
\* records and the session document cache unchanged.
C10_BlankMessageRejected ==
    [][BlankChat' =>
         /\ response'.status = 400
         /\ gateway_calls' = 0
         /\ UNCHANGED <<chats, session, documents>>]_vars

\* a whitespace-only message sent to an existing conversation with active documents
C10_Witness ==
    /\ BlankChat
    /\ request.text = <<" ">>
    /\ response.status = 400
    /\ Rows(chats, request.chat_id, RequestUser(request)) # {}
    /\ DictGet(session[request.session], request.chat_id) # <<>>

(* ======================= claims on rejected requests ================== *)
AcceptedTokens == {"first", "second", "1", "2"}

InvalidPositionRequest ==
    /\ request.op = "summarize_document"
    /\ LowerStrip(request.position) \notin AcceptedTokens \cup {""}

\* C11: summarize_document with a position token other than first, second, 1
\* or 2 (lower-cased, trimmed) answers 400 with a message naming the accepted
\* tokens, makes no gateway call and changes no store, whatever document id
\* and conversation id come with it.
C11_InvalidPositionRejected ==
    [][InvalidPositionRequest' =>
         /\ response'.status = 400
         /\ AcceptedTokens \subseteq
                {response'.error[i] : i \in DOMAIN response'.error}
         /\ gateway_calls' = 0
         /\ UNCHANGED <<chats, documents, session, created, uuid_count>>]_vars

\* an upper-case, padded unknown token sent with a document id and a
\* conversation id that has active documents
C11_Witness ==
    /\ InvalidPositionRequest
    /\ request.position = " THIRD "
    /\ request.document_id # 0
    /\ DictGet(session[request.session], request.chat_id) # <<>>
    /\ response.status = 400

EmptyTextAsk(req, docs) ==
    /\ req.op = "ask_document"
    /\ \E d \in docs : /\ d.id = req.document_id
                        /\ d.user = SessionUser[req.session]
                        /\ d.extracted_text = <<>>

\* C12: ask_document for a document of the caller whose extracted text is
\* empty answers 400, makes no gateway call and changes no store.
C12_EmptyTextRejected ==
    [][EmptyTextAsk(request', documents) =>
         /\ response'.status = 400
         /\ gateway_calls' = 0
         /\ UNCHANGED <<chats, documents, session, created, uuid_count>>]_vars

\* a non-blank question about the caller's own document that has no text
C12_Witness ==
    /\ EmptyTextAsk(request, documents)
    /\ Strip(request.text) # <<>>
    /\ request.chat_id # NoChatId
    /\ response.status = 400

(* ========================= claims on read-back ======================== *)
ChatBuilt(req) == <<SessionUser[req.session], req.chat_id>> \in DOMAIN chat_turns

\* C13: get_chat on a conversation built by chat turns only returns the turns
\* in the order they were appended: user_1, assistant_1, ..., user_k,
\* assistant_k with the contents sent and generated.
C13_GetChatReturnsTurnsInOrder ==
    (request.op = "get_chat" /\ response.status = 200 /\ ChatBuilt(request)) =>
        response.messages = chat_turns[<<SessionUser[request.session], request.chat_id>>]

\* two chat turns with different messages and replies, then get_chat
C13_Witness ==
    /\ request.op = "get_chat" /\ response.status = 200 /\ ChatBuilt(request)
    /\ Len(response.messages) = 4
    /\ response.messages[1].content # response.messages[3].content
    /\ response.messages[2].content # response.messages[4].content

\* C14: save_chat for a (chat_id, owner) that already has a conversation
\* leaves exactly one conversation for it, with the sequence number it had,
\* the title of this call and exactly this call's messages as turn records,
\* in order; every other conversation is untouched.
C14_SaveChatReplaces ==
    [][(request'.op = "save_chat" /\ response'.status = 200
          /\ Rows(chats, request'.chat_id, RequestUser(request')) # {}) =>
         LET before == Rows(chats, request'.chat_id, RequestUser(request'))
             after  == Rows(chats', request'.chat_id, RequestUser(request'))
         IN  /\ Cardinality(after) = 1
             /\ chats' \ after = chats \ before
             /\ \A b \in before : \A a \in after :
                   /\ a.session_id = b.session_id
                   /\ a.title = request'.title
                   /\ a.messages = request'.messages]_vars

\* a second save_chat with another title and a shorter message list
C14_Witness ==
    /\ request.op = "save_chat" /\ response.status = 200
    /\ new_session_id = 0
    /\ request.title = <<"t">>
    /\ Len(request.messages) = 1
    /\ \E c \in Rows(chats, request.chat_id, RequestUser(request)) :
          c.session_id = 2 /\ c.messages = request.messages

(* ======================= claims on the default key ==================== *)
DefaultUpload(req, resp) ==
    /\ req.op = "upload_document"
    /\ resp.status = 200
    /\ req.chat_id = NoChatId
    /\ Strip(ExtractText(req.file.content)) # <<>>

\* C15: an upload without a conversation id and with non-blank text upserts
\* into the list stored under the default key: what was there stays (the id
\* is new), the new document is appended, the last 2 are kept.
C15_DefaultKeyUpserts ==
    [][DefaultUpload(request', response') =>
         Ids(DictGet(session'[request'.session], "default")) =
            LastN(Append(Ids(DictGet(session[request'.session], "default")),
                         response'.document_id), 2)]_vars

(* ======================= claims on long texts ========================= *)
CachingUpload(req, resp) ==
    /\ req.op = "upload_document"
    /\ resp.status = 200
    /\ Strip(ExtractText(req.file.content)) # <<>>

\* the entry the last upload stored: the last one of the list under its key
CachedEntry ==
    LET active == DictGet(session[request.session], StorageKey(request.chat_id))
    IN  active[Len(active)]

CachedTexts ==
    {session[s][k][i].text : <<s, k, i>> \in
        {<<s, k, i>> \in Sessions \X (ChatIds \cup {"default"}) \X (1..KeepDocuments) :
            k \in DOMAIN session[s] /\ i <= Len(session[s][k])}}

\* C17: an upload caches the extracted text unchanged when it has at most
\* 50,000 characters, and otherwise its first 50,000 characters followed by
\* the truncation marker; no cached text is longer than 50,000 characters
\* plus the marker.
C17_CacheTruncation ==
    /\ CachingUpload(request, response) =>
          LET extracted_text == ExtractText(request.file.content)
              active == DictGet(session[request.session], StorageKey(request.chat_id))
          IN  /\ active # <<>>
              /\ CachedEntry.id = response.document_id
              /\ CachedEntry.text =
                    IF Len(extracted_text) <= 50000 THEN extracted_text
                    ELSE SubSeq(extracted_text, 1, 50000) \o TruncationMarker
    /\ \A text \in CachedTexts : Len(text) <= 50000 + Len(TruncationMarker)

C17_Witness ==
    /\ CachingUpload(request, response)
    /\ Len(ExtractText(request.file.content)) = 50001
    /\ Len(CachedEntry.text) = 50000 + Len(TruncationMarker)

\* a cached text as the claim says a chat turn injects it
Cut(text) ==
    IF Len(text) > 15000 THEN SubSeq(text, 1, 15000) \o ContinuationMarker
    ELSE text

Injected(active, i) ==
    <<"Document ", ToString(i), " ('", active[i].filename, "'):\n">>
        \o Cut(active[i].text)

\* C18: a chat turn injects each active document's cached text cut to its
\* first 15,000 characters plus the continuation marker when it is longer
\* (unchanged otherwise), and leaves the session document cache as it was.
C18_InjectionCutsCacheKept ==
    [][request'.op = "chat" =>
         /\ session' = session
         /\ gateway_calls' = 1 =>
               LET active == ActiveDocuments(session[request'.session],
                                             request'.chat_id)
               IN  /\ Len(active) = 1 =>
                        gateway_messages'[2].content =
                           ContextHeader \o Injected(active, 1) \o ContextTrailer
                   /\ Len(active) = 2 =>
                        gateway_messages'[2].content =
                           ContextHeader \o Injected(active, 1) \o ContextSeparator
                              \o Injected(active, 2) \o ContextTrailer]_vars

C18_Witness ==
    /\ request.op = "chat"
    /\ gateway_calls = 1
    /\ LET active == ActiveDocuments(session[request.session], request.chat_id)
       IN  /\ Len(active) = 2
           /\ Len(active[1].text) = 15000
           /\ Len(active[2].text) = 15001
           /\ Len(gateway_messages[2].content) =
                 Len(ContextHeader) + Len(ContextSeparator) + Len(ContextTrailer)
                    + 10 + 30000 + Len(ContinuationMarker)

(* ======================= claims on titles ============================= *)
\* the step recorded an exchange in a stored conversation that had the
\* placeholder title
RecordedOnPlaceholder(req, before, after) ==
    /\ req.op \in {"chat", "summarize_document", "ask_document"}
    /\ req.chat_id # NoChatId
    /\ \E c \in Rows(before, req.chat_id, RequestUser(req)) :
          /\ c.title = NewChatTitle
          /\ \E d \in Rows(after, req.chat_id, RequestUser(req)) :
                Len(d.messages) > Len(c.messages)

\* C19: after a recorded exchange (chat turn, single-document summarize with
\* a conversation id, document Q&A) on an existing conversation whose title
\* is the placeholder 'New Chat', the title is no longer the placeholder; for
\* a chat turn it is the first 50 characters of the user message.
C19_PlaceholderRetitled ==
    [][RecordedOnPlaceholder(request', chats, chats') =>
         \A d \in Rows(chats', request'.chat_id, RequestUser(request')) :
            /\ d.title # NewChatTitle
            /\ request'.op = "chat" => d.title = TitleFrom(Strip(request'.text))]_vars

(* ======================= claims on ownership ========================== *)
OwnedBy(table, user) == {x \in table : x.user = user}

\* what the response carries is taken from the requester's own rows
ReturnsOwn(req, resp, user) ==
    /\ resp.messages # <<>> =>
          \E c \in Rows(chats, req.chat_id, user) : resp.messages = c.messages
    /\ req.op = "get_chats" =>
          \A e \in resp.listing :
             \E c \in OwnedBy(chats, user) : c.chat_id = e.id /\ c.title = e.title
    /\ req.op = "get_documents" =>
          \A e \in resp.listing :
             \E d \in OwnedBy(documents, user) : d.id = e.id /\ d.filename = e.filename

\* a conversation written under a chat_id that only another owner used is a
\* new row of the requester: a new sequence number, only the request's content
SeparateConversation(req, resp, user) ==
    (/\ req.op \in {"chat", "save_chat"}
     /\ resp.status = 200
     /\ Rows(chats, req.chat_id, user) = {}
     /\ \E c \in chats : c.chat_id = req.chat_id) =>
        /\ Rows(chats', req.chat_id, user) # {}
        /\ \A d \in Rows(chats', req.chat_id, user) :
              /\ d.session_id \notin {c.session_id : c \in chats}
              /\ d.messages =
                    IF req.op = "save_chat" THEN req.messages
                    ELSE <<[role |-> "user", content |-> Strip(req.text)],
                           [role |-> "assistant", content |-> req.reply]>>

\* C20: no operation of owner A returns, modifies or deletes a conversation,
\* turn record or document of another owner B, also when A names B's chat_id
\* or document id: B's conversations (title, turn list, turn records,
\* sequence number) and documents are unchanged, and a chat_id that B uses
\* gives A a conversation of A's own.
C20_OwnersIsolated ==
    [][\A other \in Users \ {RequestUser(request')} :
          /\ OwnedBy(chats', other) = OwnedBy(chats, other)
          /\ OwnedBy(documents', other) = OwnedBy(documents, other)
          /\ ReturnsOwn(request', response', RequestUser(request'))
          /\ SeparateConversation(request', response', RequestUser(request'))]_vars

\* owner A has just had a chat turn recorded under the chat_id that owner B
\* uses, while B has a conversation with turns and a document
C20_Witness ==
    /\ request.op = "chat"
    /\ request.session = "s1"
    /\ response.status = 200
    /\ \E c \in Rows(chats, request.chat_id, "B") : c.messages # <<>>
    /\ \E c \in Rows(chats, request.chat_id, "A") : Len(c.messages) = 2
    /\ OwnedBy(documents, "B") # {}

(* ======================= claims on summarize-all ====================== *)
SummarizeAll(req) ==
    /\ req.op = "summarize_document"
    /\ LowerStrip(req.position) = ""
    /\ req.document_id = 0

\* C21: summarize_document with neither a position nor a document id persists
\* nothing: no conversation is created, no turn record written, no turn list
\* extended, and the session document cache is unchanged, with or without a
\* conversation id, whether or not that conversation exists.
C21_SummarizeAllPersistsNothing ==
    [][SummarizeAll(request') => UNCHANGED <<chats, created, session, documents>>]_vars

\* every active document of an existing conversation has just been summarized
C21_Witness ==
    /\ SummarizeAll(request)
    /\ request.chat_id = "c1"
    /\ response.status = 200
    /\ gateway_calls >= 1
    /\ Rows(chats, "c1", RequestUser(request)) # {}

(* ======================= claims on blank uploads ====================== *)
BlankUpload(req) ==
    /\ req.op = "upload_document"
    /\ req.file.present
    /\ req.file.size <= max_size
    /\ Strip(ExtractText(req.file.content)) = <<>>

\* C22: an upload whose extracted text is empty or whitespace-only leaves the
\* session document cache unchanged and reports extracted_text_length 0,
\* while the Document record is still created.
C22_BlankUploadNotCached ==
    [][BlankUpload(request') =>
         /\ session' = session
         /\ response'.status = 200
         /\ response'.length = 0
         /\ \E d \in documents' \ documents :
               /\ d.id = response'.document_id
               /\ d.user = RequestUser(request')
               /\ documents' = documents \cup {d}]_vars

\* a blank upload into a conversation whose cache list is full
C22_Witness ==
    /\ BlankUpload(request)
    /\ request.chat_id = "c1"
    /\ response.status = 200
    /\ Len(DictGet(session[request.session], "c1")) = KeepDocuments

(* ======================= claims on the cache keys ===================== *)
IsContext(message) ==
    message.content # <<>> /\ Head(message.content) = Head(ContextHeader)

\* C23: a chat turn sent without a conversation id uses the generic system
\* prompt and injects no document-context message, whatever the session
\* cache holds, the fallback key included.
C23_NoIdNoDocuments ==
    (request.op = "chat" /\ request.chat_id = NoChatId /\ gateway_calls = 1) =>
        /\ gateway_messages[1] = [role |-> "system", content |-> GenericPrompt]
        /\ Len(gateway_messages) = Len(request.history) + 2
        /\ \A i \in DOMAIN gateway_messages : ~IsContext(gateway_messages[i])

\* a chat turn without a conversation id while the session caches documents
\* under the fallback key and under a conversation id
C23_Witness ==
    /\ request.op = "chat" /\ request.chat_id = NoChatId /\ gateway_calls = 1
    /\ DictGet(session[request.session], "default") # <<>>
    /\ DictGet(session[request.session], "c1") # <<>>

Mentions(messages, name) ==
    \E i \in DOMAIN messages :
       \E j \in DOMAIN messages[i].content : messages[i].content[j] = name

\* C29: a chat turn for a conversation id c injects only documents that were
\* uploaded with conversation id c, never one uploaded under another
\* conversation id or with no conversation id.
C29_OnlyOwnConversationDocuments ==
    (request.op = "chat" /\ request.chat_id # NoChatId /\ gateway_calls = 1) =>
        \A chat_id \in KeyChatIds \ {request.chat_id} :
           ~Mentions(gateway_messages, KeyFile[chat_id].name)

(* ======================= claims on cached references ================== *)
\* C28: every entry of every session's document cache references a document
\* that exists in the Document store, also when an owner has more than one
\* session open.
C28_CacheReferencesExist ==
    \A s \in AllSessions : \A k \in DOMAIN session[s] :
       \A i \in DOMAIN session[s][k] :
          \E d \in documents : d.id = session[s][k][i].id

(* ======================= claims on the store and the gateway ========== *)
GatewayRun(req, calls) == req.op = "chat" /\ calls = 1

\* two consecutive chat runs with the same request body and the same session
\* cache entry; the store the second starts from is the one the first left
SameInput ==
    /\ GatewayRun(request, gateway_calls)
    /\ GatewayRun(request', gateway_calls')
    /\ request'.session = request.session
    /\ request'.text = request.text
    /\ request'.history = request.history
    /\ request'.chat_id = request.chat_id
    /\ DictGet(session'[request.session], request.chat_id) =
          DictGet(session[request.session], request.chat_id)

\* C30: the message sequence a chat turn sends to the gateway is determined by
\* the request body (message, history, chat_id) and the session cache entry
\* of that chat_id: runs that start from different conversation stores send
\* the same sequence.
C30_GatewayInputIgnoresStore ==
    [][SameInput => gateway_messages' = gateway_messages]_vars

\* the second of two chat runs that sent no history, on a conversation whose
\* stored turn list the first run extended
C30_Witness ==
    /\ GatewayRun(request, gateway_calls)
    /\ request.history = <<>>
    /\ response.status = 200
    /\ \E c \in Rows(chats, request.chat_id, RequestUser(request)) :
          Len(c.conversation_history) >= 4
    /\ DictGet(session[request.session], request.chat_id) # <<>>

Done(w, op) == At(w, "done") /\ workers[w].op = op

SameConversation(v, w) ==
    /\ v # w
    /\ workers[v].chat_id = workers[w].chat_id
    /\ SessionUser[workers[v].session] = SessionUser[workers[w].session]

Holds(turns, w) ==
    /\ \E i \in DOMAIN turns :
          turns[i].role = "user" /\ turns[i].content = workers[w].text
    /\ \E i \in DOMAIN turns :
          turns[i].role = "assistant" /\ turns[i].content = workers[w].reply

\* C25: when two chat requests of one owner for the same conversation id,
\* which does not exist yet, run concurrently and both gateway calls
\* succeed, exactly one conversation exists for (chat_id, owner) afterwards,
\* both requests return success, and the conversation holds the user and
\* assistant turns of both.
C25_ConcurrentCreationMerges ==
    \A v \in WorkerIds : \A w \in WorkerIds :
       (/\ Done(v, "chat") /\ Done(w, "chat")
        /\ SameConversation(v, w)
        /\ ~workers[v].existed /\ ~workers[w].existed
        /\ created = 0) =>    \* and no third request created a conversation
          /\ workers[v].status = 200 /\ workers[w].status = 200
          /\ Cardinality(Rows(chats, workers[v].chat_id,
                               SessionUser[workers[v].session])) = 1
          /\ \A c \in Rows(chats, workers[v].chat_id,
                             SessionUser[workers[v].session]) :
                /\ Holds(c.messages, v) /\ Holds(c.messages, w)
                /\ Holds(c.conversation_history, v)
                /\ Holds(c.conversation_history, w)

\* C26: when two chat turns on the same existing conversation run
\* concurrently and both succeed, the turn list afterwards contains the user
\* and assistant turn of both requests, matching the four new turn records.
C26_ConcurrentTurnsKept ==
    \A v \in WorkerIds : \A w \in WorkerIds :
       (/\ Done(v, "chat") /\ Done(w, "chat")
        /\ SameConversation(v, w)
        /\ workers[v].existed /\ workers[w].existed
        /\ workers[v].status = 200 /\ workers[w].status = 200) =>
          \A c \in Rows(chats, workers[v].chat_id,
                          SessionUser[workers[v].session]) :
             /\ Holds(c.messages, v) /\ Holds(c.messages, w)
             /\ Holds(c.conversation_history, v)
             /\ Holds(c.conversation_history, w)
             /\ Len(c.conversation_history) = Len(c.messages)

Cached(w) ==
    \E i \in DOMAIN DictGet(session[workers[w].session], workers[w].chat_id) :
       DictGet(session[workers[w].session], workers[w].chat_id)[i].id
          = workers[w].document_id

\* C27: when two uploads with non-blank text into two different conversation
\* ids of one session run concurrently, then once both have completed each
\* conversation's cache list contains the document uploaded to it.
C27_ConcurrentUploadsKept ==
    [][\A v \in WorkerIds : \A w \in WorkerIds :
          (/\ Done(v, "upload_document")' /\ Done(w, "upload_document")'
           /\ workers'[v].chat_id # workers'[w].chat_id
           /\ workers' # workers) =>
             Cached(v)' /\ Cached(w)']_vars

(* ======================= claims on the gateway input ================== *)
NotSystem(entry) == entry.role # "system"

\* the block of the i-th active document in the context message
Block(active, i) ==
    <<"Document ", ToString(i), " ('", active[i].filename, "'):\n">>
        \o DocText(active[i].text)

\* C16: the messages a chat turn hands to the gateway are: one system message
\* (generic for 0 active documents, single-document for 1, numbered
\* multi-document for 2); then, iff there are active documents, one user-role
\* message with a block per active document, labelled Document 1, Document 2
\* in cache order; then the history entries whose role is not system, in
\* order; then the new user utterance.
C16_GatewayInputOrder ==
    (request.op = "chat" /\ gateway_calls = 1) =>
        LET active == ActiveDocuments(session[request.session], request.chat_id)
            n      == Len(active)
            h      == SelectSeq(request.history, NotSystem)
            off    == IF n = 0 THEN 1 ELSE 2
            m      == gateway_messages
        IN  /\ Len(m) = off + Len(h) + 1
            /\ m[1] = [role |-> "system",
                       content |-> CASE n = 0 -> GenericPrompt
                                     [] n = 1 -> SinglePrompt
                                     [] OTHER -> MultiPrompt(n)]
            /\ n > 0 =>
                  m[2] = [role |-> "user",
                          content |-> ContextHeader \o Block(active, 1)
                             \o (IF n = 2 THEN ContextSeparator \o Block(active, 2)
                                 ELSE <<>>)
                             \o ContextTrailer]
            /\ \A i \in 1..Len(h) : m[off + i] = h[i]
            /\ m[Len(m)] = [role |-> "user", content |-> Strip(request.text)]

\* two active documents with different names and a history that holds a
\* system entry
C16_Witness ==
    /\ request.op = "chat" /\ gateway_calls = 1
    /\ Len(ActiveDocuments(session[request.session], request.chat_id)) = 2
    /\ ActiveDocuments(session[request.session], request.chat_id)[1].filename = "g.txt"
    /\ ActiveDocuments(session[request.session], request.chat_id)[2].filename = "f.txt"
    /\ Len(request.history) = 3
    /\ Len(gateway_messages) = 5

====
